---- MODULE Spec2Model ----
(***************************************************************************)
(* A model of the neural-network-playground heat map renderer              *)
(* (src/src/heatmap.ts), of its matrix reducer (reduceMatrix) and of the   *)
(* data set generators (src/unnamed/part_000, the "./dataset" module the   *)
(* heat map imports).                                                      *)
(*                                                                         *)
(* Numbers: coordinates of the generators are fixed-point, in tenths       *)
(* (0.3 is 3); averages of reduceMatrix are exact rationals [n, d] in      *)
(* lowest terms, NaN being [n |-> 0, d |-> 0]. In normalRandom a value of  *)
(* Math.random() is in quarters, v1 and v2 as well, s in sixteenths.       *)
(*                                                                         *)
(* d3 (version 3, package.json) is a library: a selection is modelled by   *)
(* what the calls made here do to the elements of the svg.                 *)
(***************************************************************************)
EXTENDS Integers, Sequences, FiniteSets, TLC

VARIABLES
    heatmaps,       \* renderer id -> the fields of that HeatMap instance
    window_onload,  \* the renderer whose closure window.onload holds, 0: none
    loaded,         \* the host has fired the window's load event
    call,           \* the last operation on a renderer and how it ended
    reduced,        \* the last reduceMatrix call: arguments and outcome
    generated,      \* the last generator call: arguments, draws and outcome
    sampled         \* the normalRandom call in progress: locals and outcome

vars == <<heatmaps, window_onload, loaded, call, reduced, generated, sampled>>

(***************************************************************************)
(* Bounds of the model.                                                    *)
(***************************************************************************)
MaxRenderers == 1
MaxSamples == 2
MaxSide == 3
MaxPoints == 1

Renderers == 1..MaxRenderers

(***************************************************************************)
(* Errors. The code throws Error(message) where it checks, and the         *)
(* runtime throws a TypeError where it reads a property of undefined or    *)
(* calls undefined.                                                        *)
(***************************************************************************)
NoError == [kind |-> "none", line |-> 0, msg |-> ""]

TypeError(l) == [kind |-> "TypeError", line |-> l, msg |-> "undefined"]

Error(l, m) == [kind |-> "Error", line |-> l, msg |-> m]

NoSvgMsg == "Can't add points since noSvg=true"

DataSizeMsg == "The provided data matrix must be of size numSamples X numSamples"

SquareMsg == "The provided matrix must be a square matrix"

DivisibleMsg == "The width/height of the matrix must be divisible by the reduction factor"

(***************************************************************************)
(* HeatMap: the fields of an instance before its constructor has run.      *)
(* color is declared (line 42) and assigned nowhere: it stays undefined.   *)
(***************************************************************************)
UndefinedScale == [defined |-> FALSE, domain |-> <<0, 0>>, range |-> <<0, 0>>]

LinearScale(d, r) == [defined |-> TRUE, domain |-> d, range |-> r]

DefaultSettings == [showAxes |-> FALSE, noSvg |-> FALSE]

NewHeatMap ==
    [constructed |-> FALSE,
     settings    |-> DefaultSettings,
     xScale      |-> UndefinedScale,
     yScale      |-> UndefinedScale,
     colorScale  |-> "undefined",
     numSamples  |-> 0,
     color       |-> "undefined",
     canvas      |-> FALSE,
     svg         |-> FALSE,
     rects       |-> 0,
     groups      |-> {},
     image       |-> <<>>,
     circles     |-> [train |-> <<>>, test |-> <<>>]]

(***************************************************************************)
(* Inputs of the constructor.                                              *)
(***************************************************************************)
Absent == [present |-> FALSE, props |-> <<>>]

Given(p) == [present |-> TRUE, props |-> p]

UserSettings ==
    {Absent,
     Given(<<>>),
     Given([noSvg |-> TRUE]),
     Given([showAxes |-> TRUE, theme |-> TRUE])}

Widths == {4}

Domains == {<<-1, 1>>}

\* for (let prop in userSettings) this.settings[prop] = userSettings[prop]
MergeSettings(settings, props) ==
    [k \in (DOMAIN settings) \cup (DOMAIN props) |->
        IF k \in DOMAIN props THEN props[k] ELSE settings[k]]

\* HeatMap.constructor, up to the statement that throws.
Constructed(h, width, numSamples, xDomain, yDomain, userSettings) ==
    LET h1 == [h EXCEPT !.constructed = TRUE, !.numSamples = numSamples]
    IN  IF ~userSettings.present
        THEN \* line 52: userSettings.showAxes of undefined
             [obj |-> h1, err |-> TypeError(52), onload |-> FALSE]
        ELSE LET h2 == [h1 EXCEPT
                          !.settings = MergeSettings(h.settings, userSettings.props),
                          !.xScale = LinearScale(xDomain, <<0, width>>),
                          !.yScale = LinearScale(yDomain, <<width, 0>>),
                          !.colorScale = "viridis"]
             IN  IF ~h2.svg
                 THEN \* line 92: this.svg.selectAll of undefined
                      [obj |-> h2, err |-> TypeError(92), onload |-> TRUE]
                 ELSE [obj |-> [h2 EXCEPT !.rects = numSamples * numSamples],
                       err |-> NoError, onload |-> TRUE]

\* The record of an operation: its arguments, whether the surface existed when
\* it was called, its error and whether it changed the image or the circles.
Idle == [op |-> "none", r |-> 0, err |-> NoError, surface |-> FALSE,
         wrote |-> FALSE, config |-> Absent,
         data |-> <<>>, discretize |-> FALSE, points |-> <<>>]

Wrote(before, after) ==
    before.image # after.image \/ before.circles # after.circles

Construct(r, width, numSamples, xDomain, yDomain, userSettings) ==
    /\ ~heatmaps[r].constructed
    /\ \A q \in DOMAIN heatmaps : q < r => heatmaps[q].constructed
    /\ LET c == Constructed(heatmaps[r], width, numSamples, xDomain, yDomain,
                            userSettings)
       IN  /\ heatmaps' = [heatmaps EXCEPT ![r] = c.obj]
           /\ window_onload' = IF c.onload THEN r ELSE window_onload
           /\ call' = [Idle EXCEPT !.op = "construct", !.r = r, !.err = c.err,
                                   !.config = userSettings]
    /\ UNCHANGED <<loaded, reduced, generated, sampled>>

\* The closure of lines 60-73: it appends a canvas and an svg to the container.
OnLoadHandler(h) == [h EXCEPT !.canvas = TRUE, !.svg = TRUE]

\* The host fires the load event, once; it runs the handler window.onload holds.
WindowLoad ==
    /\ ~loaded
    /\ loaded' = TRUE
    /\ heatmaps' = IF window_onload = 0 THEN heatmaps
                   ELSE [heatmaps EXCEPT ![window_onload] = OnLoadHandler(@)]
    /\ call' = [Idle EXCEPT !.op = "load", !.r = window_onload]
    /\ UNCHANGED <<window_onload, reduced, generated, sampled>>

(***************************************************************************)
(* Inputs of the methods: matrices by shape (the lengths of their rows),   *)
(* filled with a pattern, and short lists of examples.                     *)
(***************************************************************************)
Mixed(x, y) == ((x + 2 * y) % 3) - 1

Fill(shape, zero) ==
    [x \in 1..Len(shape) |-> [y \in 1..shape[x] |-> IF zero THEN 0 ELSE Mixed(x, y)]]

\* r rows of c cells each
Rect(r, c) == [x \in 1..r |-> c]

\* n rows of n cells, but for row k, which has n - 1
Ragged(n, k) == [x \in 1..n |-> IF x = k THEN n - 1 ELSE n]

\* squares, squares with a row too many, and squares with one short row
Shapes ==
    {Rect(n, n) : n \in 0..MaxSide}
        \cup {Rect(n + 1, n) : n \in 0..(MaxSide - 1)}
        \cup {Ragged(n, k) : n \in 2..MaxSide, k \in 2..MaxSide}

Matrices ==
    {Fill(s, FALSE) : s \in Shapes} \cup {Fill(Rect(n, n), TRUE) : n \in 1..MaxSide}

\* a point outside the domain [-1, 1] and a point on its bound
Examples == {[x |-> a, y |-> 0, label |-> 1] : a \in {-2, -1}}

RECURSIVE SeqsUpTo(_, _)
SeqsUpTo(S, n) ==
    IF n = 0 THEN {<<>>}
    ELSE LET shorter == SeqsUpTo(S, n - 1)
         IN  shorter \cup {Append(p, e) : p \in shorter, e \in S}

PointLists == SeqsUpTo(Examples, MaxPoints)

(***************************************************************************)
(* The scales and the colour functions: d3.scale.linear() applied.         *)
(***************************************************************************)
\* scale(v): linear interpolation from the domain to the range, not clamped
Apply(scale, v) ==
    scale.range[1] + ((v - scale.domain[1]) * (scale.range[2] - scale.range[1]))
                        \div (scale.domain[2] - scale.domain[1])

\* this.color(v): the colour function applied to a value
ColorOf(color, v) == <<color, v>>

(***************************************************************************)
(* HeatMap.updateBackground                                                *)
(*                                                                         *)
(* The methods act on the instance as the constructor left it. As the      *)
(* constructor always throws (line 52 or line 92), that is the instance at *)
(* the throw, which the onload closure still holds.                        *)
(***************************************************************************)
\* data[x][y], zero-based in the code; a cell a short row lacks is undefined
Cell(data, x, y) ==
    IF y <= Len(data[x]) THEN [def |-> TRUE, v |-> data[x][y]]
    ELSE [def |-> FALSE, v |-> 0]

\* value = (value >= 0 ? 1 : -1): undefined >= 0 is false
Discretized(c) == IF c.def /\ c.v >= 0 THEN 1 ELSE -1

\* the four bytes of one cell: the colour of the value, and alpha 160
Pixel(color, c, discretize) ==
    [c |-> ColorOf(color, IF discretize THEN [def |-> TRUE, v |-> Discretized(c)] ELSE c),
     a |-> 160]

\* for y, for x: image.data[++p] = ... : the pixel at y * dx + x is data[x][y]
Painted(color, data, dx, dy, discretize) ==
    [p \in 1..(dx * dy) |->
        Pixel(color, Cell(data, ((p - 1) % dx) + 1, ((p - 1) \div dx) + 1), discretize)]

UpdatedBackground(h, data, discretize) ==
    IF Len(data) = 0
    THEN \* line 117: data[0].length of undefined
         [obj |-> h, err |-> TypeError(117)]
    ELSE LET dx == Len(data[1])
             dy == Len(data)
         IN  IF dx # h.numSamples \/ dy # h.numSamples
             THEN [obj |-> h, err |-> Error(121, DataSizeMsg)]
             ELSE IF ~h.canvas
             THEN \* line 127: this.canvas.node of undefined
                  [obj |-> h, err |-> TypeError(127)]
             ELSE IF h.color = "undefined" /\ dx * dy > 0
             THEN \* line 136: this.color is not a function, at the first cell
                  [obj |-> h, err |-> TypeError(136)]
             ELSE [obj |-> [h EXCEPT !.image =
                                Painted(h.color, data, dx, dy, discretize)],
                   err |-> NoError]

updateBackground(r, data, discretize) ==
    /\ heatmaps[r].constructed
    /\ LET u == UpdatedBackground(heatmaps[r], data, discretize)
       IN  /\ heatmaps' = [heatmaps EXCEPT ![r] = u.obj]
           /\ call' = [Idle EXCEPT !.op = "updateBackground", !.r = r,
                                   !.err = u.err, !.surface = heatmaps[r].canvas,
                                   !.wrote = Wrote(heatmaps[r], u.obj),
                                   !.data = data, !.discretize = discretize]
    /\ UNCHANGED <<window_onload, loaded, reduced, generated, sampled>>

(***************************************************************************)
(* HeatMap.updateCircles, updatePoints, updateTestPoints                   *)
(***************************************************************************)
\* Keep only points that are inside the bounds.
InBounds(h, p) ==
    /\ p.x >= h.xScale.domain[1] /\ p.x <= h.xScale.domain[2]
    /\ p.y >= h.yScale.domain[1] /\ p.y <= h.yScale.domain[2]

Filtered(h, points) == SelectSeq(points, LAMBDA p : InBounds(h, p))

\* a circle the enter selection appended, or an old one, placed at its datum
Placed(h, p) ==
    [r |-> 3, cx |-> Apply(h.xScale, p.x), cy |-> Apply(h.yScale, p.y), fill |-> <<>>]

\* svg.select("g.<group>") finds no element unless the svg holds that group:
\* the selection is then empty, and data, enter, attr, style, exit act on
\* nothing. With the group there, style("fill", d => this.color(d.label))
\* calls this.color for the first circle.
UpdatedCircles(h, group, points) ==
    LET kept == Filtered(h, points)
        old  == h.circles[group]
    IN  IF group \notin h.groups
        THEN [obj |-> h, err |-> NoError]
        ELSE IF Len(kept) > 0 /\ h.color = "undefined"
        THEN \* line 167, after enter/append and attr, before exit/remove
             [obj |-> [h EXCEPT !.circles[group] =
                          [k \in 1..(IF Len(old) > Len(kept) THEN Len(old) ELSE Len(kept)) |->
                              IF k <= Len(kept) THEN Placed(h, kept[k]) ELSE old[k]]],
              err |-> TypeError(167)]
        ELSE [obj |-> [h EXCEPT !.circles[group] =
                          [k \in 1..Len(kept) |->
                              [Placed(h, kept[k]) EXCEPT
                                  !.fill = ColorOf(h.color, kept[k].label)]]],
              err |-> NoError]

\* A variant of UpdatedPoints: with noSvg set the call does nothing, silently.
UpdatedPointsSilent(h, group, line, points) ==
    IF h.settings.noSvg
    THEN [obj |-> h, err |-> NoError]
    ELSE IF ~h.svg
    THEN [obj |-> h, err |-> TypeError(line + 2)]
    ELSE UpdatedCircles(h, group, points)

UpdatedPoints(h, group, line, points) ==
    IF h.settings.noSvg
    THEN [obj |-> h, err |-> Error(line, NoSvgMsg)]
    ELSE IF ~h.svg
    THEN \* this.svg.select of undefined
         [obj |-> h, err |-> TypeError(line + 2)]
    ELSE UpdatedCircles(h, group, points)

PointsCall(r, op, group, line, points) ==
    /\ heatmaps[r].constructed
    /\ LET u == UpdatedPoints(heatmaps[r], group, line, points)
       IN  /\ heatmaps' = [heatmaps EXCEPT ![r] = u.obj]
           /\ call' = [Idle EXCEPT !.op = op, !.r = r, !.err = u.err,
                                   !.surface = heatmaps[r].svg,
                                   !.wrote = Wrote(heatmaps[r], u.obj),
                                   !.points = points]
    /\ UNCHANGED <<window_onload, loaded, reduced, generated, sampled>>

updateTestPoints(r, points) == PointsCall(r, "updateTestPoints", "test", 104, points)

updatePoints(r, points) == PointsCall(r, "updatePoints", "train", 111, points)

(***************************************************************************)
(* reduceMatrix. An average is the exact rational sum / (factor * factor); *)
(* adding undefined (a cell a short row lacks) makes it NaN.               *)
(***************************************************************************)
MaxReduceSide == 4

RECURSIVE GCD(_, _)
GCD(a, b) == IF b = 0 THEN a ELSE GCD(b, a % b)

Abs(a) == IF a < 0 THEN -a ELSE a

NaN == [n |-> 0, d |-> 0]

\* n / d with d > 0, in lowest terms
Rat(n, d) == LET g == GCD(Abs(n), d) IN [n |-> n \div g, d |-> d \div g]

\* the loops over k and l (q = k * factor + l): avg += matrix[i + k][j + l]
RECURSIVE Summed(_, _, _, _, _, _)
Summed(matrix, i, j, factor, q, avg) ==
    IF q = factor * factor THEN avg
    ELSE LET row == matrix[i + (q \div factor) + 1]
             col == j + (q % factor) + 1
         IN  IF col > Len(row) \/ avg.nan
             THEN Summed(matrix, i, j, factor, q + 1, [nan |-> TRUE, v |-> 0])
             ELSE Summed(matrix, i, j, factor, q + 1, [avg EXCEPT !.v = @ + row[col]])

\* A variant of Averaged: avg /= factor.
AveragedByFactor(matrix, i, j, factor) ==
    LET avg == Summed(matrix, i, j, factor, 0, [nan |-> FALSE, v |-> 0])
    IN  IF avg.nan THEN NaN ELSE Rat(avg.v, factor)

\* avg /= (factor * factor)
Averaged(matrix, i, j, factor) ==
    LET avg == Summed(matrix, i, j, factor, 0, [nan |-> FALSE, v |-> 0])
    IN  IF avg.nan THEN NaN ELSE Rat(avg.v, factor * factor)

ReducedMatrix(matrix, factor) ==
    IF Len(matrix) = 0
    THEN \* line 175: matrix[0].length of undefined
         [err |-> TypeError(175), result |-> <<>>]
    ELSE IF Len(matrix) # Len(matrix[1])
    THEN [err |-> Error(176, SquareMsg), result |-> <<>>]
    ELSE IF factor = 0 \/ Len(matrix) % factor # 0
    THEN \* n % 0 is NaN, which is !== 0
         [err |-> Error(179, DivisibleMsg), result |-> <<>>]
    ELSE [err |-> NoError,
          result |-> [a \in 1..(Len(matrix) \div factor) |->
                        [b \in 1..(Len(matrix) \div factor) |->
                            Averaged(matrix, (a - 1) * factor, (b - 1) * factor, factor)]]]

NotReduced == [called |-> FALSE, matrix |-> <<>>, factor |-> 0,
               err |-> NoError, result |-> <<>>]

\* the call reduceMatrix(matrix, factor), on the arguments drawn at the start
reduceMatrix ==
    /\ ~reduced.called
    /\ LET res == ReducedMatrix(reduced.matrix, reduced.factor)
       IN  reduced' = [reduced EXCEPT !.called = TRUE, !.err = res.err,
                                      !.result = res.result]
    /\ UNCHANGED <<heatmaps, window_onload, loaded, call, generated, sampled>>

\* the values 1, 2, ... n * n in row-major order
RowMajor(n) == [i \in 1..n |-> [j \in 1..n |-> n * (i - 1) + j]]

\* one cell of 1 among cells of 0
Spike(n, p, q) == [i \in 1..n |-> [j \in 1..n |-> IF i = p /\ j = q THEN 1 ELSE 0]]

ReduceShapes ==
    {Rect(r, c) : r \in 0..MaxReduceSide, c \in 0..MaxReduceSide}
        \cup {Ragged(n, k) : n \in 2..MaxReduceSide, k \in 2..MaxReduceSide}

ReduceMatrices ==
    {Fill(s, FALSE) : s \in ReduceShapes}
        \cup {RowMajor(n) : n \in 1..MaxReduceSide}
        \cup {Spike(n, p, q) : n \in 1..MaxReduceSide, p \in 1..MaxReduceSide,
                               q \in 1..MaxReduceSide}

Factors == 0..(MaxReduceSide + 1)

(***************************************************************************)
(* The data set generators. A draw of Math.random() is a number of         *)
(* hundredths, 0..99; coordinates are in tenths. For classifyXORData the   *)
(* examples are computed; of the other generators an example is recorded   *)
(* by the loop that pushed it and its index i (their coordinates come from *)
(* Math.random, sin, cos and sqrt).                                        *)
(***************************************************************************)
MaxNumSamples == 5
MaxXorSamples == 2

\* Math.random() * (b - a) + a, in tenths
randUniform(rnd, a, b) == (rnd * (b - a)) \div 10 + 10 * a

\* A variant of ForLoop: the bound is rounded down, i < Math.floor(num / den).
RECURSIVE ForLoopFloored(_, _, _, _, _)
ForLoopFloored(points, i, num, den, loop) ==
    IF i < num \div den
    THEN ForLoopFloored(Append(points, [loop |-> loop, i |-> i]), i + 1, num, den, loop)
    ELSE points

\* for (let i = 0; i < num / den; i++) points.push(...): num / den is a
\* real number, not rounded.
RECURSIVE ForLoop(_, _, _, _, _)
ForLoop(points, i, num, den, loop) ==
    IF i * den < num
    THEN ForLoop(Append(points, [loop |-> loop, i |-> i]), i + 1, num, den, loop)
    ELSE points

\* one loop to numSamples
Single(numSamples) == ForLoop(<<>>, 0, numSamples, 1, 1)

\* two loops to numSamples / 2, one after the other
Halves(numSamples) == ForLoop(ForLoop(<<>>, 0, numSamples, 2, 1), 0, numSamples, 2, 2)

classifyHashData(numSamples, noise) == Single(numSamples)

classifyTwoGaussData(numSamples, noise) == Halves(numSamples)

regressArgMax(numSamples, noise) == Single(numSamples)

regressMaximum(numSamples, noise) == Single(numSamples)

regressPlane(numSamples, noise) == Single(numSamples)

regressGaussian(numSamples, noise) == Single(numSamples)

classifySpiralData(numSamples, noise) == Halves(numSamples)

classifyCircleData(numSamples, noise) == Halves(numSamples)

classifyMNISTThreeData(numSamples, noise) == Single(numSamples)

classifyConcentricCircles(numSamples, noise) == Halves(numSamples)

regressSineWave(numSamples, noise) == Single(numSamples)

classifyBiclusters(numSamples, noise) == Halves(numSamples)

classifyMoons(numSamples, noise) == Halves(numSamples)

regressFriedman1(numSamples, noise) == Single(numSamples)

regressFriedman2(numSamples, noise) == Single(numSamples)

regressFriedman3(numSamples, noise) == Single(numSamples)

\* getXORLabel: p.x * p.y >= 0 ? 1 : -1
getXORLabel(p) == IF p.x * p.y >= 0 THEN 1 ELSE -1

\* x += x > 0 ? padding : -padding, with padding = 0.3
Padded(v) == IF v > 0 THEN v + 3 ELSE v - 3

\* A variant of XORExample: the label is computed before the padding.
XORExampleLabelFirst(d, noise) ==
    LET x0 == randUniform(d[1], -5, 5)
        y0 == randUniform(d[2], -5, 5)
        noiseX == randUniform(d[3], -5, 5) * noise
        noiseY == randUniform(d[4], -5, 5) * noise
    IN  [x |-> Padded(x0), y |-> Padded(y0),
         label |-> getXORLabel([x |-> x0 + noiseX, y |-> y0 + noiseY])]

\* one turn of the loop of classifyXORData, on its four draws
XORExample(d, noise) ==
    LET x == Padded(randUniform(d[1], -5, 5))
        y == Padded(randUniform(d[2], -5, 5))
        noiseX == randUniform(d[3], -5, 5) * noise
        noiseY == randUniform(d[4], -5, 5) * noise
    IN  [x |-> x, y |-> y, label |-> getXORLabel([x |-> x + noiseX, y |-> y + noiseY])]

classifyXORData(numSamples, noise, draws) ==
    [i \in 1..numSamples |-> XORExample(draws[i], noise)]

TwoGroupGenerators ==
    {"classifyTwoGaussData", "classifySpiralData", "classifyCircleData",
     "classifyConcentricCircles", "classifyBiclusters", "classifyMoons"}

SingleLoopGenerators ==
    {"classifyHashData", "regressArgMax", "regressMaximum", "regressPlane",
     "regressGaussian", "classifyXORData", "classifyMNISTThreeData",
     "regressSineWave", "regressFriedman1", "regressFriedman2", "regressFriedman3"}

\* the registry of the generators, by name
Generated(name, numSamples, noise, draws) ==
    CASE name = "classifyHashData" -> classifyHashData(numSamples, noise)
      [] name = "classifyTwoGaussData" -> classifyTwoGaussData(numSamples, noise)
      [] name = "regressArgMax" -> regressArgMax(numSamples, noise)
      [] name = "regressMaximum" -> regressMaximum(numSamples, noise)
      [] name = "regressPlane" -> regressPlane(numSamples, noise)
      [] name = "regressGaussian" -> regressGaussian(numSamples, noise)
      [] name = "classifySpiralData" -> classifySpiralData(numSamples, noise)
      [] name = "classifyCircleData" -> classifyCircleData(numSamples, noise)
      [] name = "classifyXORData" -> classifyXORData(numSamples, noise, draws)
      [] name = "classifyMNISTThreeData" -> classifyMNISTThreeData(numSamples, noise)
      [] name = "classifyConcentricCircles" -> classifyConcentricCircles(numSamples, noise)
      [] name = "regressSineWave" -> regressSineWave(numSamples, noise)
      [] name = "classifyBiclusters" -> classifyBiclusters(numSamples, noise)
      [] name = "classifyMoons" -> classifyMoons(numSamples, noise)
      [] name = "regressFriedman1" -> regressFriedman1(numSamples, noise)
      [] name = "regressFriedman2" -> regressFriedman2(numSamples, noise)
      [] name = "regressFriedman3" -> regressFriedman3(numSamples, noise)

NotGenerated == [called |-> FALSE, name |-> "", numSamples |-> 0, noise |-> 0,
                 draws |-> <<>>, points |-> <<>>]

\* the call of a generator, on the arguments and the draws fixed at the start
Generate ==
    /\ generated.name # ""
    /\ ~generated.called
    /\ generated' = [generated EXCEPT
                        !.called = TRUE,
                        !.points = Generated(generated.name, generated.numSamples,
                                             generated.noise, generated.draws)]
    /\ UNCHANGED <<heatmaps, window_onload, loaded, call, reduced, sampled>>

Noises == {0, 1}

\* the draws of one example of classifyXORData: x, y, noiseX, noiseY
XorDraws == {<<a, b, c, d>> : a \in {0, 50, 51}, b \in {0, 50, 51},
                              c \in {0, 99}, d \in {0, 99}}

\* the draws a call uses: four per example for classifyXORData
DrawsOf(name, numSamples) ==
    IF name = "classifyXORData" THEN [1..numSamples -> XorDraws] ELSE {<<>>}

SamplesOf(name) ==
    IF name = "classifyXORData" THEN 1..MaxXorSamples ELSE 1..MaxNumSamples

(***************************************************************************)
(* normalRandom (the polar method): each pass of the do-while loop draws   *)
(* two values of Math.random(); the pass that ends the loop also computes  *)
(* the result and returns.                                                 *)
(***************************************************************************)
MaxPasses == 3

\* Math.random(), in quarters: 0, 0.25, 0.5, 0.75
RandomQuarters == 0..3

\* the means and variances classifyTwoGaussData passes, the variance in tenths
Means == {-2, 2}

Variances == {5, 40}

\* 2 * Math.random() - 1, in quarters
Centered(rnd) == 2 * rnd - 4

\* v1 * v1 + v2 * v2, in sixteenths
SumOfSquares(v1, v2) == v1 * v1 + v2 * v2

\* while (s > 1), s in sixteenths
LoopAgain(s) == s > 16

\* mean + Math.sqrt(variance) * Math.sqrt(-2 * Math.log(s) / s) * v1, kept
\* as the term it is; with s = 0 (so v1 = 0) Math.log gives -Infinity, the
\* quotient and its root Infinity, and Infinity * 0 is NaN
NormalResult(mean, variance, s, v1) ==
    IF s = 0
    THEN [nan |-> TRUE, mean |-> mean, variance |-> variance, s |-> s, v1 |-> v1]
    ELSE [nan |-> FALSE, mean |-> mean, variance |-> variance, s |-> s, v1 |-> v1]

NotSampled ==
    [pc |-> "idle", mean |-> 0, variance |-> 0, passes |-> 0,
     v1 |-> 0, v2 |-> 0, s |-> 0, result |-> <<>>]

\* one pass of the loop, with the two draws of the pass
normalRandom(rnd1, rnd2) ==
    /\ sampled.pc = "loop"
    /\ sampled.passes < MaxPasses
    /\ LET v1 == Centered(rnd1)
           v2 == Centered(rnd2)
           s == SumOfSquares(v1, v2)
       IN  sampled' =
              IF LoopAgain(s)
              THEN [sampled EXCEPT !.passes = @ + 1, !.v1 = v1, !.v2 = v2, !.s = s]
              ELSE [sampled EXCEPT
                       !.pc = "returned", !.passes = @ + 1,
                       !.v1 = v1, !.v2 = v2, !.s = s,
                       !.result = NormalResult(sampled.mean, sampled.variance, s, v1)]
    /\ UNCHANGED <<heatmaps, window_onload, loaded, call, reduced, generated>>

RendererInit ==
    /\ heatmaps = [r \in Renderers |-> NewHeatMap]
    /\ window_onload = 0
    /\ loaded = FALSE
    /\ call = Idle

Init ==
    /\ RendererInit
    /\ reduced = NotReduced
    /\ generated = NotGenerated
    /\ sampled = NotSampled

Next ==
    \/ \E r \in DOMAIN heatmaps, w \in Widths, n \in 1..MaxSamples, d \in Domains,
          u \in UserSettings : Construct(r, w, n, d, d, u)
    \/ WindowLoad
    \/ \E r \in DOMAIN heatmaps, m \in Matrices, b \in BOOLEAN :
          updateBackground(r, m, b)
    \/ \E r \in DOMAIN heatmaps, ps \in PointLists : updatePoints(r, ps)
    \/ \E r \in DOMAIN heatmaps, ps \in PointLists : updateTestPoints(r, ps)

Spec == Init /\ [][Next]_vars

\* Several renderers in one window: they share window.onload.
MaxShared == 2

InitShared ==
    /\ heatmaps = [r \in 1..MaxShared |-> NewHeatMap]
    /\ window_onload = 0
    /\ loaded = FALSE
    /\ call = Idle
    /\ reduced = NotReduced
    /\ generated = NotGenerated
    /\ sampled = NotSampled

SpecShared == InitShared /\ [][Next]_vars

\* reduceMatrix is a pure function: the arguments are drawn at the start.
InitReduce ==
    /\ RendererInit
    /\ reduced \in {[NotReduced EXCEPT !.matrix = m, !.factor = f] :
                        m \in ReduceMatrices, f \in Factors}
    /\ generated = NotGenerated
    /\ sampled = NotSampled

NextReduce == reduceMatrix

SpecReduce == InitReduce /\ [][NextReduce]_vars

\* The generators: the arguments and the draws of Math.random() are drawn
\* at the start.
InitData ==
    /\ RendererInit
    /\ reduced = NotReduced
    /\ sampled = NotSampled
    /\ \E g \in TwoGroupGenerators \cup SingleLoopGenerators, z \in Noises :
          \E n \in SamplesOf(g) :
             \E ds \in DrawsOf(g, n) :
                generated = [NotGenerated EXCEPT !.name = g, !.numSamples = n,
                                                 !.noise = z, !.draws = ds]

NextData == Generate

SpecData == InitData /\ [][NextData]_vars

\* normalRandom: the arguments are drawn at the start, the draws at each pass.
InitNormal ==
    /\ RendererInit
    /\ reduced = NotReduced
    /\ generated = NotGenerated
    /\ sampled \in {[NotSampled EXCEPT !.pc = "loop", !.mean = m, !.variance = v] :
                        m \in Means, v \in Variances}

NextNormal == \E rnd1 \in RandomQuarters, rnd2 \in RandomQuarters : normalRandom(rnd1, rnd2)

SpecNormal == InitNormal /\ [][NextNormal]_vars

(***************************************************************************)
(* The error kinds of the specification, by what the code throws.          *)
(***************************************************************************)
ConfigurationError(e) == e.kind = "Error" /\ e.msg = NoSvgMsg

DimensionError(e) == e.kind = "Error" /\ e.msg \in {DataSizeMsg, SquareMsg, DivisibleMsg}

\* an error the code raises on purpose that is neither of the two above
LifecycleError(e) ==
    e.kind = "Error" /\ e.msg \notin {NoSvgMsg, DataSizeMsg, SquareMsg, DivisibleMsg}

PointsOps == {"updatePoints", "updateTestPoints"}

GroupOf(op) == IF op = "updatePoints" THEN "train" ELSE "test"

\* every row of m, and the list of rows, has length n
SquareOfSide(m, n) == Len(m) = n /\ \A x \in 1..Len(m) : Len(m[x]) = n

ValidConfig(c) == c.present /\ DOMAIN c.props \subseteq {"showAxes", "noSvg"}

(***************************************************************************)
(* C1: construct, called with a valid config before the host has signalled *)
(* readiness, completes without error: on return both scales are           *)
(* established and exactly numSamples * numSamples placeholder cells have   *)
(* been painted, and the canvas and the overlay do not exist yet.          *)
(***************************************************************************)
C1_ConstructCompletes ==
    (call.op = "construct" /\ ValidConfig(call.config) /\ ~loaded) =>
        LET h == heatmaps[call.r]
        IN  /\ call.err = NoError
            /\ h.xScale.defined /\ h.yScale.defined
            /\ h.rects = h.numSamples * h.numSamples
            /\ ~h.canvas /\ ~h.svg

(***************************************************************************)
(* C2: an updateBackground call, or an updatePoints / updateTestPoints     *)
(* call on a renderer with noSvg = false, made after construct and before  *)
(* the surface exists is rejected with a lifecycle error and writes        *)
(* nothing to the raster buffer or to either marker group. (The code keeps *)
(* no queue of calls, so there is nothing to replay.)                      *)
(***************************************************************************)
C2_RejectedBeforeSurface ==
    (/\ call.op = "updateBackground"
        \/ (call.op \in PointsOps /\ ~heatmaps[call.r].settings.noSvg)
     /\ ~call.surface) =>
        /\ LifecycleError(call.err)
        /\ ~call.wrote

(***************************************************************************)
(* C3: on a renderer whose surface exists, updateBackground(matrix, true)  *)
(* with a numSamples x numSamples matrix succeeds and paints numSamples *   *)
(* numSamples cells, each of alpha 160, a cell of value >= 0 (0 included)  *)
(* with the colour of +1 and a cell of value < 0 with the colour of -1.    *)
(***************************************************************************)
C3_DiscretizedBackground ==
    (/\ call.op = "updateBackground"
     /\ call.surface
     /\ call.discretize
     /\ SquareOfSide(call.data, heatmaps[call.r].numSamples)) =>
        LET h == heatmaps[call.r]
            n == h.numSamples
        IN  /\ call.err = NoError
            /\ Len(h.image) = n * n
            /\ \A x \in 1..n, y \in 1..n :
                  LET px == h.image[(y - 1) * n + x]
                  IN  /\ px.a = 160
                      /\ px.c = ColorOf(h.color,
                                    [def |-> TRUE,
                                     v |-> IF call.data[x][y] >= 0 THEN 1 ELSE -1])

(***************************************************************************)
(* C4: updateBackground fails with a dimension error, and paints no cell,  *)
(* for every matrix that is not square of side numSamples: a wrong number  *)
(* of rows, any row (not only the first) of another length, the empty      *)
(* matrix.                                                                 *)
(***************************************************************************)
C4_DimensionChecked ==
    (/\ call.op = "updateBackground"
     /\ ~SquareOfSide(call.data, heatmaps[call.r].numSamples)) =>
        /\ DimensionError(call.err)
        /\ ~call.wrote

(***************************************************************************)
(* C5: on a renderer constructed with noSvg = true, every updatePoints and *)
(* updateTestPoints call, for any list of points, before or after the      *)
(* surface exists, fails with a configuration error and leaves both marker *)
(* groups unchanged.                                                       *)
(***************************************************************************)
C5_NoSvgRejected ==
    (call.op \in PointsOps /\ heatmaps[call.r].settings.noSvg) =>
        /\ ConfigurationError(call.err)
        /\ ~call.wrote

C5_Witness ==
    /\ call.op = "updateTestPoints"
    /\ heatmaps[call.r].settings.noSvg
    /\ call.surface
    /\ Len(call.points) > 0
    /\ ConfigurationError(call.err)

(***************************************************************************)
(* C6: after an updatePoints / updateTestPoints call on a renderer with    *)
(* noSvg = false whose surface exists, the group of the call ("train" or   *)
(* "test") holds one marker per point of the call that lies inside         *)
(* xDomain x yDomain (bounds included), in the order of the list: the k-th *)
(* marker has radius 3 and sits at (xScale(x), yScale(y)) of the k-th      *)
(* point kept.                                                             *)
(***************************************************************************)
C6_MarkersReconciled ==
    (/\ call.op \in PointsOps
     /\ call.surface
     /\ ~heatmaps[call.r].settings.noSvg) =>
        LET h == heatmaps[call.r]
            kept == Filtered(h, call.points)
            markers == h.circles[GroupOf(call.op)]
        IN  /\ call.err = NoError
            /\ Len(markers) = Len(kept)
            /\ \A k \in 1..Len(kept) :
                  /\ markers[k].r = 3
                  /\ markers[k].cx = Apply(h.xScale, kept[k].x)
                  /\ markers[k].cy = Apply(h.yScale, kept[k].y)

(***************************************************************************)
(* C7: for a square matrix M of side n >= 1 and a factor f >= 1 dividing   *)
(* n, reduceMatrix(M, f) returns a square matrix of side n / f whose cell  *)
(* [i][j] is the mean of the f * f cells M[i*f + k][j*f + l], 0 <= k, l <  *)
(* f; so reduceMatrix(M, 1) is M, and the 4 x 4 matrix of 1..16 with f = 2 *)
(* gives [[3.5, 5.5], [11.5, 13.5]].                                       *)
(***************************************************************************)
RECURSIVE SumCells(_, _)
SumCells(M, cells) ==
    IF cells = {} THEN 0
    ELSE LET c == CHOOSE c \in cells : TRUE
         IN  M[c[1]][c[2]] + SumCells(M, cells \ {c})

\* the cells of block (a, b), counted from 1
Block(a, b, f) ==
    {<<(a - 1) * f + k, (b - 1) * f + l>> : k \in 1..f, l \in 1..f}

C8_ReduceRejects ==
    LET M == reduced.matrix
        f == reduced.factor
        n == Len(M)
    IN  (/\ reduced.called
         /\ n >= 1
         /\ \/ ~SquareOfSide(M, n)
            \/ f = 0
            \/ (f > 0 /\ n % f # 0)) =>
            /\ DimensionError(reduced.err)
            /\ reduced.result = <<>>

(***************************************************************************)
(* C9: for every numSamples >= 1 a generator that splits its samples into  *)
(* two groups produces floor(numSamples / 2) examples per group, so        *)
(* 2 * floor(numSamples / 2) examples and never more than numSamples;      *)
(* every other generator returns numSamples examples.                      *)
(***************************************************************************)
InLoop(points, loop) == {k \in 1..Len(points) : points[k].loop = loop}

PerGroup(g, perGroup) ==
    /\ Cardinality(InLoop(g.points, 1)) = perGroup
    /\ Cardinality(InLoop(g.points, 2)) = perGroup
    /\ Len(g.points) = 2 * perGroup

C9_FloorPerGroup ==
    generated.called =>
        /\ generated.name \in TwoGroupGenerators =>
              /\ PerGroup(generated, generated.numSamples \div 2)
              /\ Len(generated.points) <= generated.numSamples
        /\ generated.name \in SingleLoopGenerators =>
              Len(generated.points) = generated.numSamples

(***************************************************************************)
(* C9, amended: a generator that splits its samples into two groups        *)
(* produces ceil(numSamples / 2) examples per group: numSamples examples   *)
(* when numSamples is even, numSamples + 1 when it is odd; every other     *)
(* generator returns numSamples examples.                                  *)
(***************************************************************************)
C9_CeilPerGroup ==
    generated.called =>
        /\ generated.name \in TwoGroupGenerators =>
              /\ PerGroup(generated, (generated.numSamples + 1) \div 2)
              /\ Len(generated.points) =
                    generated.numSamples + (generated.numSamples % 2)
        /\ generated.name \in SingleLoopGenerators =>
              Len(generated.points) = generated.numSamples

C9_Witness ==
    /\ generated.called
    /\ generated.name = "classifySpiralData"
    /\ generated.numSamples = 3
    /\ Len(generated.points) = 4

(***************************************************************************)
(* C10: classifyXORData(numSamples, 0) returns only examples whose label   *)
(* is the sign of x * y of the stored coordinates, and no stored           *)
(* coordinate is 0: the padding moves every drawn value, a drawn 0         *)
(* included, away from the axes before the label is computed.              *)
(***************************************************************************)
C10_XorLabelIsSign ==
    (generated.called /\ generated.name = "classifyXORData" /\ generated.noise = 0) =>
        \A k \in 1..Len(generated.points) :
            LET p == generated.points[k]
            IN  /\ p.x # 0 /\ p.y # 0
                /\ (p.x * p.y > 0 => p.label = 1)
                /\ (p.x * p.y < 0 => p.label = -1)

C10_Witness ==
    /\ generated.called
    /\ generated.name = "classifyXORData"
    /\ generated.noise = 0
    /\ \E k \in 1..Len(generated.points) :
          /\ randUniform(generated.draws[k][1], -5, 5) = 0
          /\ generated.points[k].x = -3
          /\ generated.points[k].y > 0
          /\ generated.points[k].label = -1

(***************************************************************************)
(* C11: construct rejects, with an error raised on purpose at              *)
(* construction, every config that carries a key other than showAxes and   *)
(* noSvg, and no such key ever becomes a setting of the renderer; a config *)
(* that is absent leaves the defaults showAxes = false, noSvg = false, and *)
(* a config that omits a key leaves the default of that key.               *)
(***************************************************************************)
KnownKeys == DOMAIN DefaultSettings

C11_UnknownKeysRejected ==
    (call.op = "construct") =>
        LET h == heatmaps[call.r]
            c == call.config
        IN  /\ DOMAIN h.settings \subseteq KnownKeys
            /\ (c.present /\ ~(DOMAIN c.props \subseteq KnownKeys)) =>
                  call.err.kind = "Error"
            /\ ~c.present => h.settings = DefaultSettings /\ call.err.kind # "TypeError"
            /\ c.present =>
                  \A k \in KnownKeys \ DOMAIN c.props :
                      h.settings[k] = DefaultSettings[k]

(***************************************************************************)
(* C12: normalRandom never leaves its loop with s = 0: when it returns,    *)
(* the s of the last pass satisfies 0 < s <= 1 and the value returned is a *)
(* number; a pass that drew v1 = v2 = 0 is followed by another pass.       *)
(***************************************************************************)
C12_NeverLeavesWithZero ==
    sampled.pc = "returned" =>
        /\ 0 < sampled.s /\ sampled.s <= 16
        /\ ~(sampled.v1 = 0 /\ sampled.v2 = 0)
        /\ ~sampled.result.nan

(***************************************************************************)
(* C13: when the host fires the load event, every renderer whose           *)
(* constructor had registered its handler by then gets its canvas and its  *)
(* overlay: the handler of an earlier renderer is not replaced by the      *)
(* construction of a later one.                                            *)
(***************************************************************************)
RegisteredOnLoad(h) == h.constructed /\ h.xScale.defined

C13_EveryPendingMaterialized ==
    (call.op = "load") =>
        \A r \in DOMAIN heatmaps :
            RegisteredOnLoad(heatmaps[r]) => heatmaps[r].canvas /\ heatmaps[r].svg
====
